---------------------------- MODULE Spec2Model ----------------------------
(***************************************************************************)
(* A model of the WhatsApp webhook endpoint of dify-whatsapp-bot           *)
(* (src/endpoints/whatsapp-bot.py): the POST pipeline _handle_webhook, the *)
(* App Bridge _invoke_app_reply with its conversation store, and the       *)
(* best-effort sender _send_whatsapp_text.                                 *)
(*                                                                         *)
(* Python values are modelled as tagged records [k |-> kind, v |-> value]: *)
(* None, bool, int, str, list and dict (a JSON document after parsing).    *)
(* bytes are sequences of integers.  A Python exception is the value       *)
(* Raised where an operator models an expression that can raise.           *)
(***************************************************************************)
EXTENDS Integers, Sequences, FiniteSets, TLC

(***************************************************************************)
(* Python / JSON values                                                    *)
(***************************************************************************)
JNull == [k |-> "null"]
JBool(b) == [k |-> "bool", v |-> b]
JNum(n) == [k |-> "num", v |-> n]
JStr(s) == [k |-> "str", v |-> s]
JList(q) == [k |-> "list", v |-> q]
JObj(f) == [k |-> "obj", v |-> f]
EmptyObj == [k |-> "obj", v |-> << >>]
Raised == [k |-> "raise"]

IsObj(j) == j.k = "obj"
IsStr(j) == j.k = "str"

\* bool(x): None, False, 0, "", [] and {} are falsy
Truthy(j) ==
    CASE j.k = "null" -> FALSE
      [] j.k = "bool" -> j.v
      [] j.k = "num" -> j.v # 0
      [] j.k = "str" -> j.v # ""
      [] j.k = "list" -> Len(j.v) > 0
      [] j.k = "obj" -> DOMAIN j.v # {}
      [] OTHER -> FALSE

\* a or b
PyOr(a, b) == IF Truthy(a) THEN a ELSE b

\* d.get(key, default) on a dict; on anything else the attribute lookup raises
DictGet(d, key, default) ==
    IF ~IsObj(d) THEN Raised
    ELSE IF key \in DOMAIN d.v THEN d.v[key] ELSE default

\* str(x) for the values the program formats
PyStr(j) ==
    CASE j.k = "str" -> j.v
      [] j.k = "num" -> ToString(j.v)
      [] j.k = "bool" -> IF j.v THEN "True" ELSE "False"
      [] j.k = "null" -> "None"

\* the characters str.strip() removes (str.isspace): blank, tab, line feed,
\* carriage return, form feed, and, written as the characters themselves,
\* U+000B, U+001C, U+001D, U+001E, U+001F, U+0085 and U+00A0.  The
\* whitespace beyond U+00FF (U+1680, U+2000..U+200A, U+2028, U+2029, U+202F,
\* U+205F, U+3000) cannot be written in a string of a module and is outside
\* the alphabet of the strings used here.
Whitespace ==
    {" ", "\t", "\n", "\r", "\f", "", "", "", "", "", "", " "}

\* s.lstrip(), s.rstrip(), s.strip(): leading and trailing whitespace removed
RECURSIVE LStrip(_)
LStrip(s) ==
    IF Len(s) > 0 /\ SubSeq(s, 1, 1) \in Whitespace
    THEN LStrip(SubSeq(s, 2, Len(s))) ELSE s

RECURSIVE RStrip(_)
RStrip(s) ==
    IF Len(s) > 0 /\ SubSeq(s, Len(s), Len(s)) \in Whitespace
    THEN RStrip(SubSeq(s, 1, Len(s) - 1)) ELSE s

Strip(s) == RStrip(LStrip(s))

\* (settings.get(name) or '').strip()
SettingStr(settings, name) ==
    LET x == PyOr(DictGet(settings, name, JNull), JStr("")) IN Strip(x.v)

\* needle in s, for str s
HasSubstring(s, needle) ==
    \E i \in 1..(Len(s) - Len(needle) + 1) : SubSeq(s, i, i + Len(needle) - 1) = needle

\* 'entry' in payload: key of a dict, element of a list, substring of a str;
\* any other operand is not iterable and the test raises TypeError
ContainsEntry(p) ==
    CASE p.k = "obj" -> "entry" \in DOMAIN p.v
      [] p.k = "list" -> \E i \in 1..Len(p.v) : p.v[i] = JStr("entry")
      [] p.k = "str" -> HasSubstring(p.v, "entry")
      [] OTHER -> FALSE

ContainsRaises(p) == p.k \notin {"obj", "list", "str"}


(***************************************************************************)
(* bytes: str.encode('utf-8') and bytes.decode('utf-8') over the alphabet  *)
(* of the continuity tokens used here (all ASCII: one byte per character)  *)
(***************************************************************************)
Ord(c) ==
    CASE c = "c" -> 99
      [] c = "1" -> 49
      [] c = "2" -> 50

Chr(b) ==
    CASE b = 99 -> "c"
      [] b = 49 -> "1"
      [] b = 50 -> "2"

Utf8Encode(s) == [i \in 1..Len(s) |-> Ord(SubSeq(s, i, i))]

RECURSIVE Utf8Decode(_)
Utf8Decode(b) ==
    IF Len(b) = 0 THEN "" ELSE Chr(Head(b)) \o Utf8Decode(Tail(b))

(***************************************************************************)
(* Conversation Store: session.storage, a key-value store of bytes.  A key *)
(* that was never set reads as no value (falsy, like b"").                 *)
(***************************************************************************)
NoBytes == << >>

StorageGet(st, key) == IF key \in DOMAIN st THEN st[key] ELSE NoBytes

\* f with k mapped to v
Put(f, k, v) == [x \in DOMAIN f \cup {k} |-> IF x = k THEN v ELSE f[x]]

\* a store that forgets every other key on a write
StorageSetClobbers(st, key, val) == [x \in {key} |-> val]

\* a store that keeps the first value written under a key
StorageSetFirstWins(st, key, val) == IF key \in DOMAIN st THEN st ELSE Put(st, key, val)

StorageSet(st, key, val) == Put(st, key, val)

(***************************************************************************)
(* _extract_text and the per-message guard of the walk                     *)
(***************************************************************************)
\* text extraction that does not look at the message type
ExtractTextAnyType(message) ==
    LET text == PyOr(DictGet(message, "text", JNull), EmptyObj)
    IN  DictGet(text, "body", JNull)

\* _extract_text(message): text.get('body') of a text message, else None
ExtractText(message) ==
    IF DictGet(message, "type", JNull) = JStr("text")
    THEN LET text == PyOr(DictGet(message, "text", JNull), EmptyObj)
         IN  DictGet(text, "body", JNull)
    ELSE JNull

SenderOf(message) == DictGet(message, "from", JNull)

\* What lines 159-162 do with one element of `messages`:
\*   "raise" message.get or text.get raises, "skip" the continue is taken,
\*   "text"  the message is processed
MsgClass(message) ==
    IF ~IsObj(message) THEN "raise"
    ELSE IF ExtractText(message) = Raised THEN "raise"
    ELSE IF ~Truthy(SenderOf(message)) \/ ExtractText(message) = JNull THEN "skip"
    ELSE "text"

\* _get_app_id(app_setting)
GetAppId(app_setting) ==
    IF ~Truthy(app_setting) THEN JNull
    ELSE IF IsStr(app_setting)
         THEN (IF Strip(app_setting.v) # "" THEN JStr(Strip(app_setting.v)) ELSE JNull)
    ELSE IF IsObj(app_setting)
         THEN LET x == PyOr(PyOr(DictGet(app_setting, "app_id", JNull),
                                 DictGet(app_setting, "id", JNull)), JStr(""))
              IN  IF Strip(x.v) # "" THEN JStr(Strip(x.v)) ELSE JNull
    ELSE JNull

\* f"whatsapp:{phone_number_id}:{sender_wa_id}"
ConversationKey(phone_number_id, sender_wa_id) ==
    "whatsapp:" \o phone_number_id \o ":" \o PyStr(sender_wa_id)

(***************************************************************************)
(* The walk of lines 154-158: the elements of every `messages` list in the *)
(* order the three nested loops reach them, and whether the iteration then *)
(* raises (a non-dict entry, change or value, a non-iterable collection).  *)
(***************************************************************************)
\* a dict that remembers the order in which its keys were inserted (the
\* order of the members in the JSON document)
JDict(keys, fields) == [k |-> "obj", v |-> fields, keys |-> keys]

\* KeySeq(d): iteration over a dict yields its keys in insertion order.  A
\* dict of one key or of none has one order only; a dict of more keys that
\* is iterated is written with JDict.
KeySeq(d) ==
    CASE "keys" \in DOMAIN d -> [i \in 1..Len(d.keys) |-> JStr(d.keys[i])]
      [] "keys" \notin DOMAIN d /\ Cardinality(DOMAIN d.v) <= 1 ->
            [i \in 1..Cardinality(DOMAIN d.v) |-> JStr(CHOOSE x \in DOMAIN d.v : TRUE)]

Iterable(j) == j.k \in {"list", "str", "obj"}

\* the elements `for x in j` yields
Iter(j) ==
    CASE j.k = "list" -> j.v
      [] j.k = "str" -> [i \in 1..Len(j.v) |-> JStr(SubSeq(j.v, i, i))]
      [] j.k = "obj" -> KeySeq(j)

\* lines 156-157 for one change
ChangeMessages(change) ==
    IF ~IsObj(change) THEN [msgs |-> << >>, raises |-> TRUE]
    ELSE LET value == PyOr(DictGet(change, "value", JNull), EmptyObj) IN
         IF ~IsObj(value) THEN [msgs |-> << >>, raises |-> TRUE]
         ELSE LET messages == PyOr(DictGet(value, "messages", JNull), JList(<< >>)) IN
              IF ~Iterable(messages) THEN [msgs |-> << >>, raises |-> TRUE]
              ELSE [msgs |-> Iter(messages), raises |-> FALSE]

RECURSIVE WalkChanges(_, _)
WalkChanges(changes, i) ==
    IF i > Len(changes) THEN [msgs |-> << >>, raises |-> FALSE]
    ELSE LET here == ChangeMessages(changes[i]) IN
         IF here.raises THEN here
         ELSE LET rest == WalkChanges(changes, i + 1)
              IN  [msgs |-> here.msgs \o rest.msgs, raises |-> rest.raises]

\* line 155 for one entry
EntryMessages(entry) ==
    IF ~IsObj(entry) THEN [msgs |-> << >>, raises |-> TRUE]
    ELSE LET changes == DictGet(entry, "changes", JList(<< >>)) IN
         IF ~Iterable(changes) THEN [msgs |-> << >>, raises |-> TRUE]
         ELSE WalkChanges(Iter(changes), 1)

RECURSIVE WalkEntries(_, _)
WalkEntries(entries, i) ==
    IF i > Len(entries) THEN [msgs |-> << >>, raises |-> FALSE]
    ELSE LET here == EntryMessages(entries[i]) IN
         IF here.raises THEN here
         ELSE LET rest == WalkEntries(entries, i + 1)
              IN  [msgs |-> here.msgs \o rest.msgs, raises |-> rest.raises]

\* line 154
Walk(payload) ==
    IF ~IsObj(payload) THEN [msgs |-> << >>, raises |-> TRUE]
    ELSE LET entries == DictGet(payload, "entry", JList(<< >>)) IN
         IF ~Iterable(entries) THEN [msgs |-> << >>, raises |-> TRUE]
         ELSE WalkEntries(Iter(entries), 1)

(***************************************************************************)
(* _invoke_app_reply and the reply decision, as pure steps                 *)
(***************************************************************************)
\* lines 73-79: the conversation_id after the best-effort read.  `outcome`
\* is "ok" (storage.get returned raw) or "raise" (it raised)
ConversationIdRead(outcome, raw) ==
    IF outcome = "ok" /\ Len(raw) > 0 THEN JStr(Utf8Decode(raw)) ELSE JNull

\* the request to the App with the stored token left out
InvokeParamsWithoutToken(app_id, query, identify_inputs, conversation_id) ==
    JObj([app_id |-> app_id, query |-> query, inputs |-> identify_inputs,
          response_mode |-> JStr("blocking")])

\* lines 81-88: the request to the App, conversation_id only when truthy
InvokeParams(app_id, query, identify_inputs, conversation_id) ==
    IF Truthy(conversation_id)
    THEN JObj([app_id |-> app_id, query |-> query, inputs |-> identify_inputs,
               response_mode |-> JStr("blocking"),
               conversation_id |-> conversation_id])
    ELSE JObj([app_id |-> app_id, query |-> query, inputs |-> identify_inputs,
               response_mode |-> JStr("blocking")])

\* lines 165-168
IdentifyInputs(sender_wa_id, phone_number_id) ==
    JObj([whatsapp_user_id |-> sender_wa_id, phone_number_id |-> JStr(phone_number_id)])

\* lines 93-97: result.get('answer') or result.get('output_text') or result.get('message')
ExtractAnswer(result) ==
    PyOr(PyOr(DictGet(result, "answer", JNull), DictGet(result, "output_text", JNull)),
         DictGet(result, "message", JNull))

\* line 99
NewConversationId(result) == DictGet(result, "conversation_id", JNull)

\* a write that stores no bytes
TokenBytesEmpty(new_conversation_id) == Utf8Encode("")

\* line 102: the bytes stored for a conversation identifier
TokenBytes(new_conversation_id) == Utf8Encode(PyStr(new_conversation_id))

\* line 106
BridgeReturn(answer) == IF answer # JNull THEN JStr(PyStr(answer)) ELSE JNull

\* without the inner try, a raising storage.set reaches line 108
BridgeAfterSetPropagates(outcome, answer) ==
    IF outcome = "raise" THEN JNull ELSE BridgeReturn(answer)

\* lines 100-106: what _invoke_app_reply returns once storage.set has
\* returned or raised (the inner except passes)
BridgeAfterSet(outcome, answer) == BridgeReturn(answer)

\* without the try of line 129, a raising requests.post ends the walk
AfterSendPropagates(outcome) == IF outcome = "raise" THEN "done" ELSE "walk"

\* lines 129-133: where the walk stands after requests.post returned or raised
AfterSend(outcome) == "walk"

\* the fallback test inverted
ReplyTextInverted(bridge, text_body) == IF Truthy(bridge) THEN text_body ELSE bridge

\* lines 182-183: echo fallback
ReplyText(bridge, text_body) == IF ~Truthy(bridge) THEN text_body ELSE bridge

\* line 151
CanReply(access_token, phone_number_id) == access_token # "" /\ phone_number_id # ""

\* line 185
ShouldSend(can_reply, reply_text) == can_reply /\ Truthy(reply_text)

\* line 140: r.get_json(silent=True).  With silent=True a body that is not
\* JSON yields None; reading the request stream can still raise.
GetJson(body) ==
    CASE body.t = "raise" -> Raised
      [] body.t = "invalid" -> JNull
      [] body.t = "json" -> body.v

(***************************************************************************)
(* Responses                                                               *)
(***************************************************************************)
NoResponse == [status |-> 0, body |-> ""]
Ok == [status |-> 200, body |-> "ok"]
BadRequest == [status |-> 400, body |-> "Bad Request"]
\* an exception left _handle_webhook: no Response object was returned
Escaped == [status |-> 500, body |-> "exception"]

\* without the try of line 153, an exception leaves the handler
WalkResponseUncaught(raised) == IF raised THEN Escaped ELSE Ok

\* lines 192-196: the response once the walk has ended (`raised`: by an exception)
WalkResponse(raised) == Ok

(***************************************************************************)
(* Inputs                                                                  *)
(***************************************************************************)
MText(from, body) ==
    JObj([from |-> JStr(from), type |-> JStr("text"), text |-> JObj([body |-> JStr(body)])])

M1 == MText("1555", "hi")
M2 == MText("1666", "yo")
M3 == MText("1555", "yo")
MImage == JObj([from |-> JStr("1555"), type |-> JStr("image"),
                text |-> JObj([body |-> JStr("caption")])])
MNoFrom == JObj([type |-> JStr("text"), text |-> JObj([body |-> JStr("hi")])])
MNoText == JObj([from |-> JStr("1666"), type |-> JStr("text")])
MEmptyBody == MText("1555", "")
MBadText == JObj([type |-> JStr("text"), text |-> JStr("oops")])
MNotObj == JStr("junk")

Change(msgs) == JObj([value |-> JObj([messages |-> JList(msgs)])])
Entry(changes) == JObj([id |-> JStr("e"), changes |-> JList(changes)])
Event(entries) == JObj([object |-> JStr("whatsapp_business_account"), entry |-> JList(entries)])
OneChange(msgs) == Event(<<Entry(<<Change(msgs)>>)>>)

WalkPayloads ==
    { OneChange(<<M1>>), OneChange(<<M1, M2>>), OneChange(<<M1, M3>>),
      OneChange(<<MImage, M1>>), OneChange(<<MNoFrom, M2>>),
      OneChange(<<MNoText, MEmptyBody>>), OneChange(<<MBadText, M1>>),
      OneChange(<<M2, MNotObj, M1>>),
      Event(<<Entry(<<Change(<<M2>>), JObj([value |-> JNull])>>), Entry(<<Change(<<M1>>)>>)>>),
      Event(<<JObj([id |-> JStr("e")]), Entry(<<Change(<<M1>>), JNum(7)>>)>>),
      Event(<<Entry(<<JObj([value |-> JObj([messages |-> JNum(3)])])>>)>>),
      JObj([entry |-> JNull]), JObj([entry |-> JStr("ab")]),
      JObj([entry |-> JObj([changes |-> JList(<< >>)])]),
      JObj([entry |-> JDict(<<"zz", "changes">>, [zz |-> JNum(1), changes |-> JList(<< >>)])]),
      Event(<<Entry(<<JObj([value |-> JObj([messages |->
                                   JDict(<<"b", "a">>, [b |-> JNum(1), a |-> JNum(2)])])])>>)>>),
      JStr("an entry"), JList(<<JStr("entry")>>) }

OtherPayloads ==
    { JNull, EmptyObj, JObj([object |-> JStr("page")]), JNum(0), JNum(5), JBool(TRUE),
      JStr("hello"), JList(<< >>), JList(<<JNum(1)>>) }

Bodies ==
    { [t |-> "raise", v |-> JNull], [t |-> "invalid", v |-> JNull] }
    \cup { [t |-> "json", v |-> p] : p \in WalkPayloads \cup OtherPayloads }

AppObj == JObj([app_id |-> JStr("app1")])

SFull == JObj([access_token |-> JStr("tok"), phone_number_id |-> JStr("100"), app |-> AppObj])
SEcho == JObj([access_token |-> JStr(" tok\n"), phone_number_id |-> JStr("100\t")])
SNoToken ==
    JObj([access_token |-> JNull, phone_number_id |-> JStr("100"),
          app |-> JObj([app_id |-> JStr(""), id |-> JStr(" app1 ")])])
SBlank ==
    JObj([access_token |-> JStr("tok"), phone_number_id |-> JStr("  "), app |-> JStr("  ")])

SettingsSet == {SFull, SEcho, SNoToken, SBlank}

\* what session.app.chat.invoke can do: raise, or return a result
AppOutcomes ==
    { Raised, JNull,
      JObj([answer |-> JStr("A1"), conversation_id |-> JStr("c1")]),
      JObj([answer |-> JStr("A2"), conversation_id |-> JStr("c2")]),
      JObj([answer |-> JStr("A1")]),
      JObj([answer |-> JStr(""), output_text |-> JStr("A2"), conversation_id |-> JStr("")]),
      JObj([event |-> JStr("message_end"), conversation_id |-> JStr("c2")]) }

StoreOutcomes == {"ok", "raise"}
\* requests.post: a 2xx response, a rejection, or a timeout / network error
SendOutcomes == {"2xx", "non2xx", "raise"}

Reqs == {"r1", "r2"}

(***************************************************************************)
(* State                                                                   *)
(***************************************************************************)
VARIABLES
    pc,         \* per request: where its handler stands
    input,      \* per request: the settings and the request body it was given
    pos,        \* per request: index, in walk order, of the message at hand
    loc,        \* per request: the locals of the message at hand
    response,   \* per request: the Response returned (NoResponse before)
    swallowed,  \* per request: the except clause of line 192 ran
    cur,        \* per request: the external calls made for the message at hand
    invokedAt,  \* per request: positions for which the App was invoked
    sentAt,     \* per request: positions for which requests.post was called
    store,      \* session.storage, shared by all requests
    store0,     \* the store when the first of the requests at hand arrived
    lastSet,    \* per key: the latest successful storage.set: by which request, of which
                \* token, for which phone_number_id and sender
    tool        \* the direct-send tool: its invocation at hand (tools/send_message.py)

vars == <<pc, input, pos, loc, response, swallowed, cur, invokedAt, sentAt,
          store, store0, lastSet, tool>>

\* the direct-send tool before it is invoked
NoTool == [pc |-> "idle", credentials |-> EmptyObj, parameters |-> EmptyObj,
           to |-> "", posts |-> << >>, out |-> << >>, pending |-> << >>]

NoLocals == [conversation_id |-> JNull, answer |-> JNull, new_conversation_id |-> JNull,
             bridge |-> JNull, reply_text |-> JNull]

NoInput == [settings |-> EmptyObj, body |-> [t |-> "invalid", v |-> JNull]]

\* lines 144-146 and 140
AccessToken(r) == SettingStr(input[r].settings, "access_token")
PhoneNumberId(r) == SettingStr(input[r].settings, "phone_number_id")
AppId(r) == GetAppId(DictGet(input[r].settings, "app", JNull))
Payload(r) == PyOr(GetJson(input[r].body), EmptyObj)

Items(r) == Walk(Payload(r))
Msg(r) == Items(r).msgs[pos[r]]
Sender(r) == SenderOf(Msg(r))
TextBody(r) == ExtractText(Msg(r))
Key(r) == ConversationKey(PhoneNumberId(r), Sender(r))

\* lines 139-151: what _handle_webhook does before the walk
WebhookEntry(body) ==
    IF GetJson(body) = Raised THEN "bad_request"
    ELSE LET payload == PyOr(GetJson(body), EmptyObj) IN
         IF ~Truthy(payload) THEN "ok"
         ELSE IF ContainsRaises(payload) THEN "escaped"
         ELSE IF ~ContainsEntry(payload) THEN "ok"
         ELSE "walk"

Init ==
    /\ pc = [r \in Reqs |-> "idle"]
    /\ input = [r \in Reqs |-> NoInput]
    /\ pos = [r \in Reqs |-> 0]
    /\ loc = [r \in Reqs |-> NoLocals]
    /\ response = [r \in Reqs |-> NoResponse]
    /\ swallowed = [r \in Reqs |-> FALSE]
    /\ cur = [r \in Reqs |-> << >>]
    /\ invokedAt = [r \in Reqs |-> << >>]
    /\ sentAt = [r \in Reqs |-> << >>]
    /\ store = << >>
    /\ store0 = << >>
    /\ lastSet = << >>
    /\ tool = NoTool

Running(r) == pc[r] \notin {"idle", "done"}

\* A POST arrives (_invoke, line 21) with a body, under the endpoint's settings
Receive(r, SS, BB) ==
    /\ pc[r] = "idle"
    /\ \E s \in SS, b \in BB : input' = [input EXCEPT ![r] = [settings |-> s, body |-> b]]
    /\ pc' = [pc EXCEPT ![r] = "webhook"]
    /\ store0' = IF \A q \in Reqs : pc[q] = "idle" THEN store ELSE store0
    /\ UNCHANGED <<tool, pos, loc, response, swallowed, cur, invokedAt, sentAt, store, lastSet>>

\* The response has been delivered: the request and the handler's locals are gone
Forget(r) ==
    /\ pc[r] = "done"
    /\ pc' = [pc EXCEPT ![r] = "idle"]
    /\ input' = [input EXCEPT ![r] = NoInput]
    /\ pos' = [pos EXCEPT ![r] = 0]
    /\ loc' = [loc EXCEPT ![r] = NoLocals]
    /\ response' = [response EXCEPT ![r] = NoResponse]
    /\ swallowed' = [swallowed EXCEPT ![r] = FALSE]
    /\ cur' = [cur EXCEPT ![r] = << >>]
    /\ invokedAt' = [invokedAt EXCEPT ![r] = << >>]
    /\ sentAt' = [sentAt EXCEPT ![r] = << >>]
    /\ store0' = IF \A q \in Reqs : pc[q] = "idle" THEN store ELSE store0
    /\ UNCHANGED <<tool, store, lastSet>>

\* _handle_webhook, lines 139-151
HandleWebhook(r) ==
    /\ pc[r] = "webhook"
    /\ LET e == WebhookEntry(input[r].body) IN
       /\ pc' = [pc EXCEPT ![r] = IF e = "walk" THEN "walk" ELSE "done"]
       /\ pos' = [pos EXCEPT ![r] = IF e = "walk" THEN 1 ELSE 0]
       /\ response' = [response EXCEPT ![r] =
              CASE e = "bad_request" -> BadRequest
                [] e = "ok" -> Ok
                [] e = "escaped" -> Escaped
                [] e = "walk" -> NoResponse]
    /\ UNCHANGED <<tool, input, loc, swallowed, cur, invokedAt, sentAt, store, store0, lastSet>>

\* lines 173-185 once the App Bridge has returned `bridge` (None without an
\* app): where the handler goes next
GoesToSend(r, bridge) ==
    ShouldSend(CanReply(AccessToken(r), PhoneNumberId(r)), ReplyText(bridge, TextBody(r)))

\* a handler that turns to the next message before it has sent the reply
AfterBridgeStartsNext(r, bridge, answer, new_conversation_id) ==
    /\ loc' = [loc EXCEPT ![r] = [conversation_id |-> @.conversation_id,
                                  answer |-> answer,
                                  new_conversation_id |-> new_conversation_id,
                                  bridge |-> bridge,
                                  reply_text |-> ReplyText(bridge, TextBody(r))]]
    /\ pc' = [pc EXCEPT ![r] = IF GoesToSend(r, bridge) THEN "send" ELSE "walk"]
    /\ pos' = [pos EXCEPT ![r] = @ + 1]

AfterBridge(r, bridge, answer, new_conversation_id) ==
    /\ loc' = [loc EXCEPT ![r] = [conversation_id |-> @.conversation_id,
                                  answer |-> answer,
                                  new_conversation_id |-> new_conversation_id,
                                  bridge |-> bridge,
                                  reply_text |-> ReplyText(bridge, TextBody(r))]]
    /\ pc' = [pc EXCEPT ![r] = IF GoesToSend(r, bridge) THEN "send" ELSE "walk"]
    /\ pos' = [pos EXCEPT ![r] = IF GoesToSend(r, bridge) THEN @ ELSE @ + 1]

\* lines 154-183: the loops advance to the next element of `messages`
WalkNext(r) ==
    /\ pc[r] = "walk"
    /\ IF pos[r] > Len(Items(r).msgs)
       THEN \* the loops end, or the iteration raises and line 192 catches it
            /\ pc' = [pc EXCEPT ![r] = "done"]
            /\ response' = [response EXCEPT ![r] = WalkResponse(Items(r).raises)]
            /\ swallowed' = [swallowed EXCEPT ![r] = Items(r).raises]
            /\ UNCHANGED <<pos, loc, cur>>
       ELSE IF MsgClass(Msg(r)) = "raise"
       THEN /\ pc' = [pc EXCEPT ![r] = "done"]
            /\ response' = [response EXCEPT ![r] = WalkResponse(TRUE)]
            /\ swallowed' = [swallowed EXCEPT ![r] = TRUE]
            /\ UNCHANGED <<pos, loc, cur>>
       ELSE IF MsgClass(Msg(r)) = "skip"
       THEN /\ pos' = [pos EXCEPT ![r] = @ + 1]
            /\ UNCHANGED <<pc, loc, cur, response, swallowed>>
       ELSE IF AppId(r) # JNull
       THEN /\ pc' = [pc EXCEPT ![r] = "get"]
            /\ loc' = [loc EXCEPT ![r] = NoLocals]
            /\ cur' = [cur EXCEPT ![r] = << >>]
            /\ UNCHANGED <<pos, response, swallowed>>
       ELSE /\ AfterBridge(r, JNull, JNull, JNull)
            /\ cur' = [cur EXCEPT ![r] = << >>]
            /\ UNCHANGED <<response, swallowed>>
    /\ UNCHANGED <<tool, input, invokedAt, sentAt, store, store0, lastSet>>

\* _invoke_app_reply, lines 73-79: the best-effort read of the token
StorageGetStep(r, Outcomes) ==
    /\ pc[r] = "get"
    /\ \E o \in Outcomes :
         /\ loc' = [loc EXCEPT ![r].conversation_id =
                        ConversationIdRead(o, StorageGet(store, Key(r)))]
         /\ cur' = [cur EXCEPT ![r] =
                        Append(@, [op |-> "get", pos |-> pos[r], key |-> Key(r), outcome |-> o])]
    /\ pc' = [pc EXCEPT ![r] = "invoke"]
    /\ UNCHANGED <<tool, input, pos, response, swallowed, invokedAt, sentAt, store, store0, lastSet>>

\* _invoke_app_reply, lines 81-99 (and 106-108 when nothing is to be stored)
AppInvoke(r, Outcomes) ==
    /\ pc[r] = "invoke"
    /\ \E out \in Outcomes :
         /\ cur' = [cur EXCEPT ![r] = Append(@,
                [op |-> "invoke", pos |-> pos[r], key |-> Key(r),
                 params |-> InvokeParams(AppId(r), TextBody(r),
                                         IdentifyInputs(Sender(r), PhoneNumberId(r)),
                                         loc[r].conversation_id),
                 result |-> out])]
         /\ IF ~IsObj(out)
            THEN \* invoke raised, or result.get raised: line 108
                 AfterBridge(r, JNull, JNull, JNull)
            ELSE IF Truthy(NewConversationId(out))
            THEN /\ loc' = [loc EXCEPT ![r].answer = ExtractAnswer(out),
                                       ![r].new_conversation_id = NewConversationId(out)]
                 /\ pc' = [pc EXCEPT ![r] = "set"]
                 /\ UNCHANGED pos
            ELSE AfterBridge(r, BridgeReturn(ExtractAnswer(out)), ExtractAnswer(out),
                             NewConversationId(out))
    /\ invokedAt' = [invokedAt EXCEPT ![r] = Append(@, pos[r])]
    /\ UNCHANGED <<tool, input, response, swallowed, sentAt, store, store0, lastSet>>

\* _invoke_app_reply, lines 100-106: the best-effort write of the new token
StorageSetStep(r, Outcomes) ==
    /\ pc[r] = "set"
    /\ \E o \in Outcomes :
         /\ store' = IF o = "ok"
                     THEN StorageSet(store, Key(r), TokenBytes(loc[r].new_conversation_id))
                     ELSE store
         /\ lastSet' = IF o = "ok"
                       THEN Put(lastSet, Key(r),
                                [by |-> r, tok |-> cur[r][Len(cur[r])].result.v.conversation_id,
                                 phone_number_id |-> PhoneNumberId(r),
                                 sender_wa_id |-> Sender(r)])
                       ELSE lastSet
         /\ cur' = [cur EXCEPT ![r] = Append(@,
                [op |-> "set", pos |-> pos[r], key |-> Key(r),
                 val |-> TokenBytes(loc[r].new_conversation_id), outcome |-> o])]
         /\ AfterBridge(r, BridgeAfterSet(o, loc[r].answer), loc[r].answer,
                        loc[r].new_conversation_id)
    /\ UNCHANGED <<tool, input, response, swallowed, invokedAt, sentAt, store0>>

\* lines 186-191 and _send_whatsapp_text, lines 118-133
SendStep(r, Outcomes) ==
    /\ pc[r] = "send"
    /\ \E o \in Outcomes :
         /\ cur' = [cur EXCEPT ![r] = Append(@,
                [op |-> "send", pos |-> pos[r], to |-> Sender(r), body |-> loc[r].reply_text,
                 phone_number_id |-> PhoneNumberId(r), access_token |-> AccessToken(r),
                 outcome |-> o])]
         /\ sentAt' = [sentAt EXCEPT ![r] = Append(@, [pos |-> pos[r], outcome |-> o])]
         /\ IF AfterSend(o) = "walk"
            THEN /\ pc' = [pc EXCEPT ![r] = "walk"]
                 /\ pos' = [pos EXCEPT ![r] = @ + 1]
                 /\ UNCHANGED <<response, swallowed>>
            ELSE \* an exception out of the sender would end the walk at line 192
                 /\ pc' = [pc EXCEPT ![r] = "done"]
                 /\ response' = [response EXCEPT ![r] = WalkResponse(TRUE)]
                 /\ swallowed' = [swallowed EXCEPT ![r] = TRUE]
                 /\ UNCHANGED pos
    /\ UNCHANGED <<tool, input, loc, invokedAt, store, store0, lastSet>>

\* Requests served one after the other
Next ==
    \/ Receive("r1", SettingsSet, Bodies)
    \/ HandleWebhook("r1")
    \/ WalkNext("r1")
    \/ StorageGetStep("r1", StoreOutcomes)
    \/ AppInvoke("r1", AppOutcomes)
    \/ StorageSetStep("r1", StoreOutcomes)
    \/ SendStep("r1", SendOutcomes)
    \/ Forget("r1")

Spec == Init /\ [][Next]_vars

(***************************************************************************)
(* Two webhook requests handled concurrently, each served once, over a     *)
(* store that may already hold a token from an earlier conversation.  The  *)
(* host runs one handler invocation per request; the handlers share only   *)
(* session.storage and interleave at their external calls.                 *)
(***************************************************************************)
ConcSettings == {SFull, SEcho}
ConcBodies == { [t |-> "json", v |-> OneChange(<<m>>)] : m \in {M1, M2, M3} }

ConcAppOutcomes ==
    { Raised,
      JObj([answer |-> JStr("A1"), conversation_id |-> JStr("c1")]),
      JObj([answer |-> JStr("A2"), conversation_id |-> JStr("c2")]) }
ConcSendOutcomes == {"2xx", "raise"}

StoredBefore == ConversationKey("100", JStr("1555")) :> TokenBytes(JStr("c2"))

InitConc ==
    /\ pc = [r \in Reqs |-> "idle"]
    /\ input = [r \in Reqs |-> NoInput]
    /\ pos = [r \in Reqs |-> 0]
    /\ loc = [r \in Reqs |-> NoLocals]
    /\ response = [r \in Reqs |-> NoResponse]
    /\ swallowed = [r \in Reqs |-> FALSE]
    /\ cur = [r \in Reqs |-> << >>]
    /\ invokedAt = [r \in Reqs |-> << >>]
    /\ sentAt = [r \in Reqs |-> << >>]
    /\ store \in {<< >>, StoredBefore}
    /\ store0 = store
    /\ lastSet = << >>
    /\ tool = NoTool

NextConc ==
    \E r \in Reqs :
        \/ Receive(r, ConcSettings, ConcBodies)
        \/ HandleWebhook(r)
        \/ WalkNext(r)
        \/ StorageGetStep(r, StoreOutcomes)
        \/ AppInvoke(r, ConcAppOutcomes)
        \/ StorageSetStep(r, StoreOutcomes)
        \/ SendStep(r, ConcSendOutcomes)

SpecConc == InitConc /\ [][NextConc]_vars

(***************************************************************************)
(* Properties                                                              *)
(***************************************************************************)
\* what the request brought, read off the parsed document itself
ParsedJson(r) == input[r].body.t = "json"
Document(r) == input[r].body.v
Messages(r) == Items(r).msgs
MessageAt(r, i) == Messages(r)[i]
KeyAt(r, i) == ConversationKey(PhoneNumberId(r), SenderOf(MessageAt(r, i)))

\* the external calls recorded for the message at hand
Calls(r, op) == SelectSeq(cur[r], LAMBDA e : e.op = op)
NoCalls(r) == cur[r] = << >> /\ invokedAt[r] = << >> /\ sentAt[r] = << >>

\* a message the pipeline is to answer: a dict with a sender and a text body
HasSender(m) == IsObj(m) /\ "from" \in DOMAIN m.v /\ Truthy(m.v.from)
IsTextType(m) == IsObj(m) /\ "type" \in DOMAIN m.v /\ m.v.type = JStr("text")
HasBody(m) ==
    /\ IsTextType(m)
    /\ "text" \in DOMAIN m.v /\ IsObj(m.v.text)
    /\ "body" \in DOMAIN m.v.text.v /\ m.v.text.v.body # JNull
WellFormedText(m) == HasSender(m) /\ HasBody(m)
BodyOf(m) == m.v.text.v.body

\* positions the walk reaches before anything raises
Reached(r) ==
    { i \in 1..Len(Messages(r)) : \A j \in 1..i : MsgClass(MessageAt(r, j)) # "raise" }
SentPositions(r) == { sentAt[r][i].pos : i \in 1..Len(sentAt[r]) }
InvokedPositions(r) == { invokedAt[r][i] : i \in 1..Len(invokedAt[r]) }

\* C1: a POST whose body parses as JSON and contains `entry` is always
\* answered 200 "ok", whatever fails during the walk: while the handler runs
\* it stands at one of its steps within the payload and has returned nothing,
\* and when it ends the response is 200 "ok".
C1_AlwaysAcknowledge ==
    \A r \in Reqs :
        (ParsedJson(r) /\ Truthy(Document(r)) /\ ContainsEntry(Document(r))) =>
            /\ pc[r] = "done" => response[r] = Ok
            /\ Running(r) =>
                /\ response[r] = NoResponse
                /\ pc[r] \in {"webhook", "walk", "get", "invoke", "set", "send"}
            /\ pos[r] <= Len(Messages(r)) + 1

\* a walk that hit a malformed element after a failed send and a failed App
\* call, acknowledged all the same
C1_Witness ==
    \E r \in Reqs :
        /\ pc[r] = "done" /\ swallowed[r] /\ response[r] = Ok
        /\ \E i \in 1..Len(sentAt[r]) : sentAt[r][i].outcome = "raise"
        /\ invokedAt[r] # << >>

\* C2 (as claimed): a body that cannot be parsed as JSON is answered
\* 400 "Bad Request", with no store access, App invocation or send.
C2_UnparseableIs400 ==
    \A r \in Reqs :
        (pc[r] = "done" /\ input[r].body.t = "invalid") =>
            (response[r] = BadRequest /\ NoCalls(r))

\* C3: every send goes to the sender of the message at hand; its body is the
\* App Bridge's reply when that is non-empty and the inbound text otherwise
\* (no app configured, App call failed, no answer).
BridgeOutcome(r) ==
    IF Calls(r, "invoke") = << >> THEN JNull
    ELSE LET res == Calls(r, "invoke")[1].result IN
         IF ~IsObj(res) THEN JNull
         ELSE LET a == IF "answer" \in DOMAIN res.v /\ Truthy(res.v.answer) THEN res.v.answer
                       ELSE IF "output_text" \in DOMAIN res.v /\ Truthy(res.v.output_text)
                            THEN res.v.output_text
                       ELSE IF "message" \in DOMAIN res.v THEN res.v.message
                       ELSE JNull
              IN  a

C3_EchoFallback ==
    \A r \in Reqs : \A i \in 1..Len(cur[r]) :
        cur[r][i].op = "send" =>
            LET e == cur[r][i]
                m == MessageAt(r, e.pos)
            IN  /\ WellFormedText(m)
                /\ e.to = m.v.from
                /\ IF AppId(r) = JNull \/ ~Truthy(BridgeOutcome(r))
                   THEN e.body = BodyOf(m)
                   ELSE e.body = BridgeOutcome(r)

\* an echo sent after the App call failed, to the sender, with the inbound text
C3_Witness ==
    \E r \in Reqs : \E i \in 1..Len(cur[r]) :
        /\ cur[r][i].op = "send"
        /\ Calls(r, "invoke") # << >> /\ Calls(r, "invoke")[1].result = Raised
        /\ cur[r][i].body = JStr("hi") /\ cur[r][i].to = JStr("1555")

\* the token the request to the App carried ("" when it carried none)
PassedToken(e) ==
    IF "conversation_id" \in DOMAIN e.params.v THEN e.params.v.conversation_id.v ELSE ""

\* C4: an App Bridge invocation whose read of the store succeeds passes, as
\* conversation_id, exactly the token carried by the response of the latest
\* earlier invocation for the same key whose token was stored, and passes no
\* conversation_id when no token was stored under the key.
C4_ContinuityRoundTrip ==
    \A r \in Reqs :
        (Calls(r, "invoke") # << >> /\ Calls(r, "set") = << >>
         /\ Calls(r, "get")[1].outcome = "ok") =>
            LET e == Calls(r, "invoke")[1] IN
            IF e.key \in DOMAIN lastSet
            THEN /\ "conversation_id" \in DOMAIN e.params.v
                 /\ e.params.v.conversation_id = lastSet[e.key].tok
            ELSE "conversation_id" \notin DOMAIN e.params.v

\* the second message of one sender in a payload is sent to the App with the
\* token the App returned for the first
C4_Witness ==
    \E r \in Reqs :
        /\ pos[r] = 2 /\ Calls(r, "invoke") # << >>
        /\ 1 \in InvokedPositions(r)
        /\ Len(Messages(r)) = 2
        /\ WellFormedText(MessageAt(r, 1)) /\ WellFormedText(MessageAt(r, 2))
        /\ KeyAt(r, 1) = KeyAt(r, 2)
        /\ PassedToken(Calls(r, "invoke")[1]) = "c1"

\* C5 (as claimed): a parsed payload that is empty or lacks `entry` is
\* answered 200 "ok" with no store access, App invocation or send.
C5_NoEntryIsOk ==
    \A r \in Reqs :
        (pc[r] = "done" /\ ParsedJson(r)
         /\ (~Truthy(Document(r)) \/ ~ContainsEntry(Document(r)))) =>
            (response[r] = Ok /\ NoCalls(r))

\* what the pipeline owes a well-formed text message it has reached
Processed(r, i) ==
    /\ AppId(r) # JNull => i \in InvokedPositions(r)
    /\ (CanReply(AccessToken(r), PhoneNumberId(r)) /\ Truthy(BodyOf(MessageAt(r, i))))
           => i \in SentPositions(r)

\* no external call is made for a message that is not of type text or has no sender
OnlyForTextWithSender(r) ==
    /\ \A i \in 1..Len(cur[r]) :
          IsTextType(MessageAt(r, cur[r][i].pos)) /\ HasSender(MessageAt(r, cur[r][i].pos))
    /\ \A i \in InvokedPositions(r) \cup SentPositions(r) :
          IsTextType(MessageAt(r, i)) /\ HasSender(MessageAt(r, i))

TextMemberOk(m) == "text" \notin DOMAIN m.v \/ ~Truthy(m.v.text) \/ IsObj(m.v.text)

\* C6 (as claimed): a message whose type is not "text", or whose sender is
\* absent, is skipped without any store access, App invocation or send, and
\* the other messages of the payload are still processed.
C6_SkipsAsClaimed ==
    \A r \in Reqs :
        /\ OnlyForTextWithSender(r)
        /\ (pc[r] = "done" /\ ~Items(r).raises
            /\ \A i \in 1..Len(Messages(r)) :
                  \/ WellFormedText(MessageAt(r, i))
                  \/ (IsObj(MessageAt(r, i))
                      /\ (~IsTextType(MessageAt(r, i)) \/ ~HasSender(MessageAt(r, i)))))
           => \A i \in 1..Len(Messages(r)) :
                  WellFormedText(MessageAt(r, i)) => Processed(r, i)

\* C6 (amended): a message whose type is not "text", or whose sender is
\* absent and whose `text` member is absent, empty or a mapping, is skipped
\* without any store access, App invocation or send, and the other messages
\* of the payload are still processed.
C6_SkipsNonText ==
    \A r \in Reqs :
        /\ OnlyForTextWithSender(r)
        /\ (pc[r] = "done" /\ ~Items(r).raises
            /\ \A i \in 1..Len(Messages(r)) :
                  \/ WellFormedText(MessageAt(r, i))
                  \/ (IsObj(MessageAt(r, i))
                      /\ (\/ ~IsTextType(MessageAt(r, i))
                          \/ (~HasSender(MessageAt(r, i)) /\ TextMemberOk(MessageAt(r, i))))))
           => \A i \in 1..Len(Messages(r)) :
                  WellFormedText(MessageAt(r, i)) => Processed(r, i)

\* an image message skipped and the text message after it answered
C6_Witness ==
    \E r \in Reqs :
        /\ pc[r] = "done" /\ Len(Messages(r)) = 2
        /\ IsObj(MessageAt(r, 1)) /\ ~IsTextType(MessageAt(r, 1))
        /\ SentPositions(r) = {2}
        /\ 1 \notin InvokedPositions(r)

\* C7: a send that timed out, failed or was rejected does not end the walk:
\* the handler moves on, every later well-formed text message it reaches is
\* processed, and the request ends with 200 "ok".
C7_SendFailureDoesNotAbort ==
    \A r \in Reqs : \A i \in 1..Len(sentAt[r]) :
        sentAt[r][i].outcome \in {"raise", "non2xx"} =>
            /\ pos[r] > sentAt[r][i].pos
            /\ pc[r] = "done" =>
                  /\ response[r] = Ok
                  /\ \A j \in Reached(r) :
                        (j > sentAt[r][i].pos /\ WellFormedText(MessageAt(r, j)))
                            => Processed(r, j)

\* the first send raised and the second message was still sent
C7_Witness ==
    \E r \in Reqs :
        /\ pc[r] = "done" /\ Len(sentAt[r]) = 2
        /\ sentAt[r][1].outcome = "raise" /\ sentAt[r][2].pos = 2

\* C8: a raising store never changes the App Bridge's result: after a failed
\* read the request to the App carries no conversation_id, and after a write,
\* failed or not, the bridge returns the reply extracted from the response.
C8_ContinuityNeverFailsReply ==
    \A r \in Reqs :
        /\ (Calls(r, "invoke") # << >> /\ Calls(r, "get")[1].outcome = "raise")
              => "conversation_id" \notin DOMAIN Calls(r, "invoke")[1].params.v
        /\ Calls(r, "set") # << >> => loc[r].bridge = BridgeOutcome(r)

\* both store calls raised and the bridge still returned the App's answer
C8_Witness ==
    \E r \in Reqs :
        /\ Calls(r, "set") # << >> /\ Calls(r, "set")[1].outcome = "raise"
        /\ Calls(r, "get")[1].outcome = "raise"
        /\ loc[r].bridge = JStr("A1")
        /\ Calls(r, "send") # << >> /\ Calls(r, "send")[1].body = JStr("A1")

\* the token stored under a key, as text ("" when none is stored)
StoredToken(st, key) == Utf8Decode(StorageGet(st, key))

\* the token the App returned to a request ("" when it returned none)
ReturnedToken(r) ==
    IF Calls(r, "invoke") = << >> THEN ""
    ELSE LET res == Calls(r, "invoke")[1].result IN
         IF IsObj(res) /\ "conversation_id" \in DOMAIN res.v
         THEN res.v.conversation_id.v ELSE ""

StoredByRequest(r) == Calls(r, "set") # << >> /\ Calls(r, "set")[1].outcome = "ok"

\* C9: while every other request that has arrived works under another
\* conversation key, a request reads and writes the store as if it ran
\* alone: the token it passes to the App is the one stored under its key
\* before the requests began, and the token stored under its key is that
\* same one until its own write replaces it with the token the App returned.
C9_IsolationAcrossKeys ==
    \A r \in Reqs :
        (pc[r] \notin {"idle", "webhook"}
         /\ \A q \in Reqs \ {r} : pc[q] # "idle" => KeyAt(q, 1) # KeyAt(r, 1)) =>
            /\ (Calls(r, "invoke") # << >> /\ Calls(r, "get")[1].outcome = "ok")
                  => PassedToken(Calls(r, "invoke")[1]) = StoredToken(store0, KeyAt(r, 1))
            /\ StoredToken(store, KeyAt(r, 1)) =
                  IF StoredByRequest(r) THEN ReturnedToken(r)
                  ELSE StoredToken(store0, KeyAt(r, 1))

\* two requests under different keys, both finished, each having stored its token
C9_Witness ==
    /\ \A r \in Reqs : pc[r] = "done" /\ StoredByRequest(r)
    /\ KeyAt("r1", 1) # KeyAt("r2", 1)
    /\ StoredToken(store0, KeyAt("r1", 1)) = "c2"
    /\ PassedToken(Calls("r1", "invoke")[1]) = "c2"
    /\ StoredToken(store, KeyAt("r1", 1)) = "c1"
    /\ StoredToken(store, KeyAt("r2", 1)) = "c2"

\* C10: when two concurrent requests have finished, whatever their keys and
\* their interleaving, both were answered 200 "ok", each made exactly one
\* send, to its own sender, with its own App reply or else its own text, and
\* the token under every key is the one written by the last successful
\* storage.set, a token the App returned to the request that wrote it (or
\* the earlier token when nothing was written).
C10_SameKeyRace ==
    (\A r \in Reqs : pc[r] = "done") =>
        /\ \A r \in Reqs :
              /\ response[r] = Ok
              /\ Len(Calls(r, "send")) = 1 /\ Len(sentAt[r]) = 1
              /\ Calls(r, "send")[1].to = MessageAt(r, 1).v.from
              /\ Calls(r, "send")[1].body =
                    IF Truthy(BridgeOutcome(r)) THEN BridgeOutcome(r)
                    ELSE BodyOf(MessageAt(r, 1))
        /\ \A r \in Reqs :
              LET k == KeyAt(r, 1) IN
              IF k \in DOMAIN lastSet
              THEN /\ StoredToken(store, k) = lastSet[k].tok.v
                   /\ lastSet[k].tok.v = ReturnedToken(lastSet[k].by)
                   /\ StoredByRequest(lastSet[k].by)
              ELSE StoredToken(store, k) = StoredToken(store0, k)

\* a lost update: both requests read the same earlier token, both stored the
\* token the App returned, and the later write is the one that remains
C10_Witness ==
    /\ \A r \in Reqs : pc[r] = "done" /\ StoredByRequest(r)
    /\ KeyAt("r1", 1) = KeyAt("r2", 1)
    /\ PassedToken(Calls("r1", "invoke")[1]) = "c2"
    /\ PassedToken(Calls("r2", "invoke")[1]) = "c2"
    /\ ReturnedToken("r1") = "c1" /\ ReturnedToken("r2") = "c2"
    /\ lastSet[KeyAt("r1", 1)].by = "r1"
    /\ StoredToken(store, KeyAt("r1", 1)) = "c1"
    /\ Calls("r1", "send")[1].body = JStr("A1")
    /\ Calls("r2", "send")[1].body = JStr("A2")

(***************************************************************************)
(* The endpoint as a whole: _invoke dispatches on the HTTP method to the    *)
(* Verification Responder (_handle_verify), to _handle_webhook, or answers *)
(* 405.                                                                     *)
(***************************************************************************)
Forbidden == [status |-> 403, body |-> "Forbidden"]
MethodNotAllowed == [status |-> 405, body |-> "Method Not Allowed"]
Challenge(challenge) == [status |-> 200, body |-> PyStr(challenge)]

\* (args.get(a) or args.get(b) or '').strip()
ArgStr(args, a, b) ==
    Strip(PyOr(PyOr(DictGet(args, a, JNull), DictGet(args, b, JNull)), JStr("")).v)

\* a responder that accepts an empty token when none is configured
VerifyResponseNoExpected(rargs, settings) ==
    IF rargs = Raised THEN Forbidden
    ELSE LET args == PyOr(rargs, EmptyObj)
             mode == ArgStr(args, "hub.mode", "mode")
             token == ArgStr(args, "hub.verify_token", "verify_token")
             challenge == DictGet(args, "hub.challenge", JNull)
             expected_token == SettingStr(settings, "verify_token")
         IN  IF mode = "subscribe" /\ token = expected_token /\ challenge # JNull
             THEN Challenge(challenge) ELSE Forbidden

\* _handle_verify, lines 25-41; `rargs` is r.args, or Raised when reading it raises
VerifyResponse(rargs, settings) ==
    IF rargs = Raised THEN Forbidden
    ELSE LET args == PyOr(rargs, EmptyObj)
             mode == ArgStr(args, "hub.mode", "mode")
             token == ArgStr(args, "hub.verify_token", "verify_token")
             challenge == DictGet(args, "hub.challenge", JNull)
             expected_token == SettingStr(settings, "verify_token")
         IN  IF mode = "subscribe" /\ expected_token # "" /\ token = expected_token
                /\ challenge # JNull
             THEN Challenge(challenge) ELSE Forbidden

\* _invoke, lines 16-21
Dispatch(method) ==
    IF method = "GET" THEN "verify"
    ELSE IF method # "POST" THEN "not_allowed"
    ELSE "webhook"

\* query parameters: a mapping holding the parameters that were supplied
\* (JNull stands for a parameter left out of the query string)
QueryArgs(hub_mode, mode, hub_verify_token, verify_token, hub_challenge) ==
    LET all == ("hub.mode" :> hub_mode) @@ ("mode" :> mode)
               @@ ("hub.verify_token" :> hub_verify_token)
               @@ ("verify_token" :> verify_token) @@ ("hub.challenge" :> hub_challenge)
    IN  JObj([x \in {y \in DOMAIN all : all[y] # JNull} |-> all[x]])

ArgsSet ==
    { QueryArgs(hm, m, ht, t, c) :
        hm \in {JNull, JStr("subscribe"), JStr("\tsubscribe "), JStr("unsubscribe"), JStr("")},
        m \in {JNull, JStr("subscribe")},
        ht \in {JNull, JStr("abc"), JStr("abc\n"), JStr("xyz"), JStr("")},
        t \in {JNull, JStr("abc")},
        c \in {JNull, JStr("999"), JStr("")} }
    \cup {Raised}

WithVerifyToken(settings, t) == JObj(Put(settings.v, "verify_token", t))

VerifySettings ==
    { WithVerifyToken(SFull, t) : t \in {JStr("abc"), JStr(" abc\r\n"), JStr(""), JStr(" \t"), JNull} }
    \cup {SFull}

NoBody == [t |-> "invalid", v |-> JNull]

HttpRequests ==
    { [method |-> "GET", args |-> a, settings |-> s, body |-> NoBody] :
        a \in ArgsSet, s \in VerifySettings }
    \cup { [method |-> m, args |-> EmptyObj, settings |-> s, body |-> b] :
             m \in {"POST", "PUT"}, s \in {SFull, SEcho}, b \in ConcBodies }

\* a request of any method arrives at the endpoint
Request(r) ==
    /\ pc[r] = "idle"
    /\ \E q \in HttpRequests : input' = [input EXCEPT ![r] = q]
    /\ pc' = [pc EXCEPT ![r] = "dispatch"]
    /\ store0' = store
    /\ UNCHANGED <<tool, pos, loc, response, swallowed, cur, invokedAt, sentAt, store, lastSet>>

\* _invoke, lines 16-21: GET is verified, POST goes to the pipeline, the rest is refused
Invoke(r) ==
    /\ pc[r] = "dispatch"
    /\ LET d == Dispatch(input[r].method) IN
       /\ pc' = [pc EXCEPT ![r] = IF d = "webhook" THEN "webhook" ELSE "done"]
       /\ response' = [response EXCEPT ![r] =
              CASE d = "verify" -> VerifyResponse(input[r].args, input[r].settings)
                [] d = "not_allowed" -> MethodNotAllowed
                [] d = "webhook" -> NoResponse]
    /\ UNCHANGED <<tool, input, pos, loc, swallowed, cur, invokedAt, sentAt, store, store0, lastSet>>

NextHttp ==
    \/ Request("r1")
    \/ Invoke("r1")
    \/ HandleWebhook("r1")
    \/ WalkNext("r1")
    \/ StorageGetStep("r1", StoreOutcomes)
    \/ AppInvoke("r1", ConcAppOutcomes)
    \/ StorageSetStep("r1", StoreOutcomes)
    \/ SendStep("r1", ConcSendOutcomes)
    \/ Forget("r1")

SpecHttp == Init /\ [][NextHttp]_vars

\* the query parameters as supplied, before any trimming
IsGet(r) == input[r].method = "GET"
ArgsRead(r) == input[r].args # Raised
RawArg(r, a, b) == PyOr(PyOr(DictGet(input[r].args, a, JNull), DictGet(input[r].args, b, JNull)), JStr("")).v
RawExpected(r) == PyOr(DictGet(input[r].settings, "verify_token", JNull), JStr("")).v
ChallengeArg(r) == DictGet(input[r].args, "hub.challenge", JNull)

\* C11 (as claimed): a GET is answered 200 with the challenge exactly when
\* mode = "subscribe", the expected token is non-empty, the supplied token
\* equals the expected token and a challenge is present; otherwise 403
\* "Forbidden"; and the responder touches neither store, App nor sender.
C11_VerifyAsClaimed ==
    \A r \in Reqs :
        (pc[r] = "done" /\ IsGet(r)) =>
            /\ NoCalls(r) /\ store = store0
            /\ IF /\ ArgsRead(r)
                  /\ RawArg(r, "hub.mode", "mode") = "subscribe"
                  /\ RawExpected(r) # ""
                  /\ RawArg(r, "hub.verify_token", "verify_token") = RawExpected(r)
                  /\ ChallengeArg(r) # JNull
               THEN response[r] = [status |-> 200, body |-> ChallengeArg(r).v]
               ELSE response[r] = Forbidden

\* C11 (amended): the same with mode, the supplied token and the expected
\* token compared after their surrounding blanks are removed.
C11_VerifyTrimmed ==
    \A r \in Reqs :
        (pc[r] = "done" /\ IsGet(r)) =>
            /\ NoCalls(r) /\ store = store0
            /\ IF /\ ArgsRead(r)
                  /\ Strip(RawArg(r, "hub.mode", "mode")) = "subscribe"
                  /\ Strip(RawExpected(r)) # ""
                  /\ Strip(RawArg(r, "hub.verify_token", "verify_token")) = Strip(RawExpected(r))
                  /\ ChallengeArg(r) # JNull
               THEN response[r] = [status |-> 200, body |-> ChallengeArg(r).v]
               ELSE response[r] = Forbidden

\* a handshake accepted under the bare parameter names, after a webhook
\* request had stored a token
C11_Witness ==
    \E r \in Reqs :
        /\ pc[r] = "done" /\ IsGet(r) /\ ArgsRead(r)
        /\ "hub.mode" \notin DOMAIN input[r].args.v
        /\ "hub.verify_token" \notin DOMAIN input[r].args.v
        /\ response[r] = [status |-> 200, body |-> "999"]
        /\ store # << >>

SendsFor(r, i) == { j \in 1..Len(sentAt[r]) : sentAt[r][j].pos = i }

\* C12 (as claimed): without access_token or phone_number_id the pipeline
\* sends nothing and still answers every payload with 200 "ok"; with both,
\* every message with a sender and a non-empty reply text that the walk
\* reaches gets exactly one send attempt.
C12_MissingCredentials ==
    \A r \in Reqs :
        ParsedJson(r) =>
            IF ~CanReply(AccessToken(r), PhoneNumberId(r))
            THEN /\ sentAt[r] = << >>
                 /\ pc[r] = "done" => response[r] = Ok
            ELSE pc[r] = "done" =>
                    \A i \in Reached(r) :
                        (WellFormedText(MessageAt(r, i)) /\ Truthy(BodyOf(MessageAt(r, i))))
                            => Cardinality(SendsFor(r, i)) = 1

(***************************************************************************)
(* The direct-send tool (src/tools/send_message.py): SendMessageTool       *)
(* checks its credentials and parameters, normalizes the recipient, posts  *)
(* once to the platform and reports the outcome as a list of messages.     *)
(***************************************************************************)
MaxLen == 3

\* the characters recipients are written with here
Alphabet == {"1", "5", "+", " "}

\* every string over Alphabet of at most n characters
RECURSIVE Words(_)
Words(n) ==
    IF n = 0 THEN {""}
    ELSE LET S == Words(n - 1) IN S \cup {s \o c : s \in S, c \in Alphabet}

IsDigit(c) == c \in {"0", "1", "2", "3", "4", "5", "6", "7", "8", "9"}

\* a normalization that keeps a leading plus sign
RECURSIVE NormalizeKeepsPlus(_)
NormalizeKeepsPlus(s) ==
    IF Len(s) = 0 THEN ""
    ELSE (IF IsDigit(SubSeq(s, 1, 1)) \/ SubSeq(s, 1, 1) = "+" THEN SubSeq(s, 1, 1) ELSE "")
         \o NormalizeKeepsPlus(SubSeq(s, 2, Len(s)))

\* re.sub(r"[^0-9]", "", s), line 41
RECURSIVE Normalize(_)
Normalize(s) ==
    IF Len(s) = 0 THEN ""
    ELSE (IF IsDigit(SubSeq(s, 1, 1)) THEN SubSeq(s, 1, 1) ELSE "")
         \o Normalize(SubSeq(s, 2, Len(s)))

\* (d.get(name) or "").strip(), lines 12-16
ParamStr(d, name) == Strip(PyOr(DictGet(d, name, JNull), JStr("")).v)

\* the messages the tool yields
LogMessage(label, status, data) ==
    [kind |-> "log", label |-> label, status |-> status, text |-> "", data |-> data]
TextMessage(text) ==
    [kind |-> "text", label |-> "", status |-> "", text |-> text, data |-> JNull]
JsonMessage(data) ==
    [kind |-> "json", label |-> "", status |-> "", text |-> "", data |-> data]

Url(phone_number_id) == "https://graph.facebook.com/v24.0/" \o phone_number_id \o "/messages"

MissingCredentials(access_token, phone_number_id) ==
    << LogMessage("credentials", "error",
                  JObj([error |-> JStr("Missing credentials"),
                        have_access_token |-> JBool(access_token # ""),
                        have_phone_number_id |-> JBool(phone_number_id # "")])),
       TextMessage("Configuration error: missing WhatsApp credentials") >>

MissingParameters(to_raw, text) ==
    << LogMessage("parameters", "error",
                  JObj([error |-> JStr("Missing required parameters"),
                        to |-> JBool(to_raw # ""), text |-> JBool(text # "")])),
       TextMessage("Missing required parameters: to, text") >>

SendRequestLog(phone_number_id, to) ==
    LogMessage("send_request", "", JObj([url |-> JStr(Url(phone_number_id)), to |-> JStr(to)]))

\* a tool that does not look at its parameters before posting
ToolChecksCredentialsOnly(credentials, parameters) ==
    LET access_token == ParamStr(credentials, "access_token")
        phone_number_id == ParamStr(credentials, "phone_number_id")
        to_raw == ParamStr(parameters, "to")
    IN  IF access_token = "" \/ phone_number_id = ""
        THEN [pc |-> "done", to |-> "", out |-> MissingCredentials(access_token, phone_number_id)]
        ELSE [pc |-> "post", to |-> Normalize(to_raw),
              out |-> <<SendRequestLog(phone_number_id, Normalize(to_raw))>>]

\* lines 12-55: the checks before the network call, the normalized recipient
\* and the messages yielded so far
ToolChecks(credentials, parameters) ==
    LET access_token == ParamStr(credentials, "access_token")
        phone_number_id == ParamStr(credentials, "phone_number_id")
        to_raw == ParamStr(parameters, "to")
        text == ParamStr(parameters, "text")
    IN  IF access_token = "" \/ phone_number_id = ""
        THEN [pc |-> "done", to |-> "", out |-> MissingCredentials(access_token, phone_number_id)]
        ELSE IF to_raw = "" \/ text = ""
        THEN [pc |-> "done", to |-> "", out |-> MissingParameters(to_raw, text)]
        ELSE [pc |-> "post", to |-> Normalize(to_raw),
              out |-> <<SendRequestLog(phone_number_id, Normalize(to_raw))>>]

\* lines 43-58: the request handed to requests.post
PostRequest(credentials, parameters, to) ==
    [url |-> Url(ParamStr(credentials, "phone_number_id")),
     authorization |-> "Bearer " \o ParamStr(credentials, "access_token"),
     to |-> to, text |-> ParamStr(parameters, "text")]

\* resp.text[:500]
First500(s) == IF Len(s) <= 500 THEN s ELSE SubSeq(s, 1, 500)

\* safe_json(resp), lines 106-110: resp.json is Raised when the body is not JSON
SafeJson(resp) ==
    IF resp.json = Raised THEN JObj([text |-> JStr(First500(resp.text))]) ELSE resp.json

\* extract_api_error(body), lines 113-122
ExtractApiError(body) ==
    IF IsObj(body) /\ "error" \in DOMAIN body.v
    THEN LET err == PyOr(DictGet(body, "error", JNull), EmptyObj) IN
         IF ~IsObj(err) THEN Raised
         ELSE JObj([code |-> DictGet(err, "code", JNull),
                    type |-> DictGet(err, "type", JNull),
                    message |-> DictGet(err, "message", JNull),
                    error_subcode |-> DictGet(err, "error_subcode", JNull)])
    ELSE JNull

HintToken ==
    "Invalid or expired access token. Recreate a system user token with proper permissions."
HintParameters ==
    "Invalid parameters. Verify 'phone_number_id' and that 'to' is a valid international number."
HintOptIn ==
    "Recipient has not messaged your business recently or is not opted-in. "
    \o "Ensure a recent user-initiated session or use an approved template."
HintMismatch ==
    "Check that the phone_number_id belongs to your app and Business Account."
HintGeneric ==
    "Check Business Account setup, permissions (whatsapp_business_messaging), "
    \o "and recipient format (E.164 without '+')."

\* x == n for an int literal n
EqualsInt(x, n) == x.k = "num" /\ x.v = n

\* needle in x: substring of a str, element of a list, key of a dict;
\* TypeError (Raised) for a number or a bool
InMessage(needle, x) ==
    CASE x.k = "str" -> JBool(HasSubstring(x.v, needle))
      [] x.k = "list" -> JBool(\E i \in 1..Len(x.v) : x.v[i] = JStr(needle))
      [] x.k = "obj" -> JBool(needle \in DOMAIN x.v)
      [] OTHER -> Raised

\* suggest_fix(api_error), lines 125-143; Raised when a test raises TypeError
\* (an unhashable sub-code, a message that is a number)
SuggestFix(api_error) ==
    LET code == DictGet(api_error, "code", JNull)
        subcode == DictGet(api_error, "error_subcode", JNull)
        message == PyOr(DictGet(api_error, "message", JNull), JStr(""))
    IN  IF EqualsInt(code, 190) THEN JStr(HintToken)
        ELSE IF EqualsInt(code, 100) THEN JStr(HintParameters)
        ELSE IF subcode.k \in {"list", "obj"} THEN Raised
        ELSE IF subcode.k = "num" /\ subcode.v \in {2018049, 131000, 131031} THEN JStr(HintOptIn)
        ELSE IF InMessage("Unsupported post request", message) = Raised THEN Raised
        ELSE IF InMessage("Unsupported post request", message).v THEN JStr(HintMismatch)
        ELSE JStr(HintGeneric)

\* lines 77-85: the one-line summary of a successful send
Summary(to, body) ==
    LET msgs == IF IsObj(body) THEN PyOr(DictGet(body, "messages", JNull), JList(<< >>))
                ELSE JList(<< >>)
        first == IF msgs.k = "list" /\ Len(msgs.v) > 0 THEN DictGet(msgs.v[1], "id", JNull)
                 ELSE JNull
    IN  IF first # Raised /\ Truthy(first)
        THEN "sent to " \o to \o " (id: " \o PyStr(first) \o ")"
        ELSE "sent to " \o to

ExceptionMessages ==
    << LogMessage("exception", "error", JObj([error |-> JStr("exception")])),
       TextMessage("Failed to send message due to exception") >>

IsSuccess(status_code) == 200 <= status_code /\ status_code < 300

SendResponseLog(resp) ==
    LogMessage("send_response", IF IsSuccess(resp.status_code) THEN "success" ELSE "error",
               JObj([status_code |-> JNum(resp.status_code), body |-> SafeJson(resp)]))

\* lines 57-103: the messages yielded once requests.post has returned `resp`
\* or raised (resp = Raised)
AfterPost(to, resp) ==
    IF resp = Raised THEN ExceptionMessages
    ELSE LET body == SafeJson(resp) IN
         IF IsSuccess(resp.status_code)
         THEN << SendResponseLog(resp),
                 JsonMessage(JObj([result |-> JStr("sent"), to |-> JStr(to), response |-> body])),
                 TextMessage(Summary(to, body)) >>
         ELSE LET api_error == ExtractApiError(body) IN
              IF api_error = Raised THEN <<SendResponseLog(resp)>> \o ExceptionMessages
              ELSE IF api_error # JNull
              THEN IF SuggestFix(api_error) = Raised
                   THEN <<SendResponseLog(resp)>> \o ExceptionMessages
                   ELSE << SendResponseLog(resp),
                           JsonMessage(JObj([error |-> api_error,
                                             hint |-> SuggestFix(api_error)])) >>
              ELSE << SendResponseLog(resp),
                      TextMessage("Failed to send message: HTTP " \o ToString(resp.status_code)) >>

\* inputs of the tool
CredentialsSet ==
    { JObj([access_token |-> a, phone_number_id |-> p]) :
        a \in {JNull, JStr(""), JStr("tok"), JStr("\ttok ")},
        p \in {JNull, JStr(" \n"), JStr("100")} }
    \cup { JObj([phone_number_id |-> JStr("100")]), EmptyObj }

ToValues ==
    {JNull} \cup { JStr(w) : w \in Words(MaxLen) }
    \cup { JStr("+1 (555) 123-4567"), JStr("abc"), JStr("\t15\n") }

ParametersSet ==
    { JObj([to |-> t, text |-> x]) :
        t \in ToValues, x \in {JNull, JStr(""), JStr("\t"), JStr("hello\n")} }
    \cup { JObj([text |-> JStr("hello")]), JObj([to |-> JStr("15551")]) }

Resp(status_code, json) == [status_code |-> status_code, json |-> json, text |-> ""]
ErrorBody(err) == JObj([error |-> err])

\* what requests.post can do: raise, or return a response
PostOutcomes ==
    { Raised,
      Resp(200, JObj([messages |-> JList(<<JObj([id |-> JStr("wamid.X")])>>)])),
      Resp(201, JObj([messages |-> JList(<<JStr("x")>>)])),
      Resp(204, JNull),
      [status_code |-> 200, json |-> Raised, text |-> "OK"],
      [status_code |-> 502, json |-> Raised, text |-> "Bad Gateway"],
      Resp(300, EmptyObj),
      Resp(404, JList(<<JStr("error")>>)),
      Resp(400, ErrorBody(JObj([code |-> JNum(190)]))),
      Resp(400, ErrorBody(JObj([code |-> JNum(190), error_subcode |-> JNum(131000),
                                message |-> JStr("Unsupported post request")]))),
      Resp(400, ErrorBody(JObj([code |-> JNum(100), error_subcode |-> JNum(2018049),
                                message |-> JNum(7)]))),
      Resp(400, ErrorBody(JObj([code |-> JNum(131), error_subcode |-> JNum(131031),
                                message |-> JStr("Unsupported post request")]))),
      Resp(400, ErrorBody(JObj([code |-> JStr("190"), error_subcode |-> JNum(131000)]))),
      Resp(400, ErrorBody(JObj([code |-> JNum(10),
                                message |-> JStr("(#10) Unsupported post request.")]))),
      Resp(403, ErrorBody(JObj([code |-> JNum(10), type |-> JStr("OAuthException"),
                                message |-> JStr("no permission")]))),
      Resp(400, ErrorBody(JObj([code |-> JNum(10), message |-> JNum(7)]))),
      Resp(400, ErrorBody(JObj([error_subcode |-> JList(<<JNum(131000)>>)]))),
      Resp(400, ErrorBody(JNull)),
      Resp(401, ErrorBody(JStr("invalid_token"))) }

webhookVars == <<pc, input, pos, loc, response, swallowed, cur, invokedAt, sentAt,
                 store, store0, lastSet>>

\* the tool is invoked with the provider's credentials and the caller's parameters
ToolCall ==
    /\ tool.pc = "idle"
    /\ \E c \in CredentialsSet, p \in ParametersSet :
          tool' = [tool EXCEPT !.pc = "invoked", !.credentials = c, !.parameters = p]
    /\ UNCHANGED webhookVars

\* SendMessageTool._invoke is a generator: each yield hands one message to
\* the caller and suspends the tool there.  tool.out holds the messages
\* yielded so far, tool.pending those the straight-line code after the
\* point of suspension yields next, one per resumption.

\* the first resumption, lines 12-55: up to the first yield, which is the
\* log message of line 19, of line 32 or of line 55
ToolInvoke ==
    /\ tool.pc = "invoked"
    /\ LET t == ToolChecks(tool.credentials, tool.parameters) IN
          tool' = [tool EXCEPT !.pc = IF t.pc = "post" THEN "post" ELSE "yield",
                               !.to = t.to,
                               !.out = <<Head(t.out)>>,
                               !.pending = Tail(t.out)]
    /\ UNCHANGED webhookVars

\* the resumption after line 55, lines 57-67 or 57-98: requests.post, then
\* the first message after it
ToolPost ==
    /\ tool.pc = "post"
    /\ \E resp \in PostOutcomes :
          tool' = [tool EXCEPT
                      !.pc = "yield",
                      !.posts = Append(@, [request |-> PostRequest(tool.credentials,
                                                                   tool.parameters, tool.to),
                                           resp |-> resp]),
                      !.out = Append(@, Head(AfterPost(tool.to, resp))),
                      !.pending = Tail(AfterPost(tool.to, resp))]
    /\ UNCHANGED webhookVars

\* a resumption that reaches one more yield (lines 28, 37, 75, 86, 93, 95, 98, 103)
ToolYield ==
    /\ tool.pc = "yield" /\ tool.pending # << >>
    /\ tool' = [tool EXCEPT !.out = Append(@, Head(tool.pending)),
                            !.pending = Tail(tool.pending)]
    /\ UNCHANGED webhookVars

\* the last resumption: the code returns (lines 29, 38, 87) or falls off its
\* end, and the generator is exhausted
ToolExhausted ==
    /\ tool.pc = "yield" /\ tool.pending = << >>
    /\ tool' = [tool EXCEPT !.pc = "done"]
    /\ UNCHANGED webhookVars

\* the invocation is over; the tool can be invoked again
ToolReturn ==
    /\ tool.pc = "done"
    /\ tool' = NoTool
    /\ UNCHANGED webhookVars

NextTool == ToolCall \/ ToolInvoke \/ ToolPost \/ ToolYield \/ ToolExhausted \/ ToolReturn

SpecTool == Init /\ [][NextTool]_vars

\* what the caller supplied, read off the raw mappings
Supplied(d, name) == name \in DOMAIN d.v /\ d.v[name] # JNull /\ d.v[name] # JStr("")
AllSupplied ==
    /\ Supplied(tool.credentials, "access_token")
    /\ Supplied(tool.credentials, "phone_number_id")
    /\ Supplied(tool.parameters, "to")
    /\ Supplied(tool.parameters, "text")
ToolChecked == tool.pc \in {"post", "yield", "done"}
LastText == tool.out[Len(tool.out)].text

\* C13: when a credential or a parameter is missing or empty the tool ends
\* with a configuration / parameter error message and posts nothing; a post
\* is made only when all four are non-empty.
C13_DirectSendPrecondition ==
    ToolChecked =>
        /\ ~AllSupplied =>
              /\ tool.pc # "post" /\ tool.posts = << >>
              /\ tool.pc = "done" =>
                    /\ tool.out[Len(tool.out)].kind = "text"
                    /\ LastText \in {"Configuration error: missing WhatsApp credentials",
                                     "Missing required parameters: to, text"}
                    /\ (~Supplied(tool.credentials, "access_token")
                        \/ ~Supplied(tool.credentials, "phone_number_id"))
                          => LastText = "Configuration error: missing WhatsApp credentials"
        /\ (tool.pc = "post" \/ tool.posts # << >>) => AllSupplied
        /\ Len(tool.posts) <= 1

\* valid credentials, no recipient: a parameter error and no post
C13_Witness ==
    /\ tool.pc = "done" /\ tool.posts = << >>
    /\ ParamStr(tool.credentials, "access_token") = "tok"
    /\ ParamStr(tool.credentials, "phone_number_id") = "100"
    /\ "to" \notin DOMAIN tool.parameters.v
    /\ LastText = "Missing required parameters: to, text"

\* the value of the first field of `result` that is present and not None
FirstPresent(result) ==
    IF "answer" \in DOMAIN result.v /\ result.v.answer # JNull THEN result.v.answer
    ELSE IF "output_text" \in DOMAIN result.v /\ result.v.output_text # JNull
         THEN result.v.output_text
    ELSE IF "message" \in DOMAIN result.v THEN result.v.message
    ELSE JNull

\* C14 (as claimed): for a response mapping, the App Bridge returns the
\* value of the first of answer, output_text, message that is present,
\* whatever that value, and nothing only when all three are absent.
C14_FirstPresentWins ==
    \A r \in Reqs :
        (Calls(r, "invoke") # << >> /\ pc[r] # "set"
         /\ IsObj(Calls(r, "invoke")[1].result)) =>
            LET first == FirstPresent(Calls(r, "invoke")[1].result) IN
            loc[r].bridge = IF first = JNull THEN JNull ELSE JStr(PyStr(first))

\* the platform's answer to the post of the invocation at hand
Posted == tool.pc = "done" /\ tool.posts # << >>
PlatformResp == tool.posts[1].resp
PlatformBody == SafeJson(PlatformResp)
HasErrorField == IsObj(PlatformBody) /\ "error" \in DOMAIN PlatformBody.v
ErrorField(name) ==
    LET err == PlatformBody.v.error IN
    IF IsObj(err) /\ name \in DOMAIN err.v THEN err.v[name] ELSE JNull
HintsEmitted ==
    { i \in 1..Len(tool.out) :
        tool.out[i].kind = "json" /\ "hint" \in DOMAIN tool.out[i].data.v }

\* the hint table, row by row
TableHint ==
    IF ErrorField("code") = JNum(190) THEN HintToken
    ELSE IF ErrorField("code") = JNum(100) THEN HintParameters
    ELSE IF ErrorField("error_subcode") \in {JNum(2018049), JNum(131000), JNum(131031)}
         THEN HintOptIn
    ELSE IF IsStr(ErrorField("message"))
            /\ HasSubstring(ErrorField("message").v, "Unsupported post request")
         THEN HintMismatch
    ELSE HintGeneric

\* C15 (as claimed): the tool emits a hint exactly when the platform's
\* response is not 2xx and its body has an `error` field, and the hint is
\* that of the first matching row of the table: code 190, code 100,
\* sub-code in {2018049, 131000, 131031}, message containing "Unsupported
\* post request", otherwise the generic guidance.
C15_HintLookup ==
    (Posted /\ PlatformResp # Raised) =>
        IF ~IsSuccess(PlatformResp.status_code) /\ HasErrorField
        THEN /\ Cardinality(HintsEmitted) = 1
             /\ \A i \in HintsEmitted : tool.out[i].data.v.hint = JStr(TableHint)
        ELSE HintsEmitted = {}

\* the recipient as the tool reads it, and the places of its digits
ToRaw == ParamStr(tool.parameters, "to")
CharAt(s, i) == SubSeq(s, i, i)
DigitPlaces(s) == { i \in 1..Len(s) : IsDigit(CharAt(s, i)) }
KthDigitPlace(s, k) ==
    CHOOSE i \in DigitPlaces(s) : Cardinality({ j \in DigitPlaces(s) : j < i }) = k - 1
Normalized == tool.pc = "post" \/ tool.posts # << >>

\* C16: the normalized recipient holds exactly the decimal digits of the
\* recipient supplied, in their order, and normalizing it again changes
\* nothing.
C16_NormalizeIdempotent ==
    Normalized =>
        /\ Len(tool.to) = Cardinality(DigitPlaces(ToRaw))
        /\ \A k \in 1..Len(tool.to) :
              /\ IsDigit(CharAt(tool.to, k))
              /\ CharAt(tool.to, k) = CharAt(ToRaw, KthDigitPlace(ToRaw, k))
        /\ Normalize(tool.to) = tool.to
        /\ Normalize(Normalize(ToRaw)) = Normalize(ToRaw)
        /\ tool.posts # << >> => tool.posts[1].request.to = tool.to

\* the recipient of the spec's example, normalized and posted
C16_Witness ==
    /\ tool.posts # << >>
    /\ ToRaw = "+1 (555) 123-4567"
    /\ tool.posts[1].request.to = "15551234567"

\* the external calls made for the message at hand, by name and in order
Ops(r) == [i \in 1..Len(cur[r]) |-> cur[r][i].op]
StepOrders ==
    { << >>, <<"get">>, <<"get", "invoke">>, <<"get", "invoke", "set">>,
      <<"get", "invoke", "send">>, <<"get", "invoke", "set", "send">>, <<"send">> }
Increasing(q) == \A i, j \in 1..Len(q) : i < j => q[i] < q[j]
SentAtPositions(r) == [i \in 1..Len(sentAt[r]) |-> sentAt[r][i].pos]
AtMessage(r) == pc[r] \in {"get", "invoke", "set", "send"}

\* C17: messages are handled one at a time in payload order; for each the
\* calls are made in the order store get, App invocation, store set (only
\* when the App returned a token), send, with at most one invocation and one
\* send per message; a message's calls are over before the next message
\* starts, and the 200 is returned only when no call is pending.
C17_StepOrdering ==
    \A r \in Reqs :
        /\ Ops(r) \in StepOrders
        /\ pc[r] = "get" => Ops(r) = << >>
        /\ pc[r] = "invoke" => Ops(r) = <<"get">>
        /\ pc[r] = "set" => Ops(r) = <<"get", "invoke">>
        /\ pc[r] = "send" =>
              Ops(r) \in {<< >>, <<"get", "invoke">>, <<"get", "invoke", "set">>}
        /\ Calls(r, "set") # << >> =>
              /\ IsObj(Calls(r, "invoke")[1].result)
              /\ Truthy(DictGet(Calls(r, "invoke")[1].result, "conversation_id", JNull))
        /\ \A i \in 1..Len(cur[r]) :
              /\ cur[r][i].pos = cur[r][1].pos
              /\ cur[r][i].pos <= pos[r]
              /\ AtMessage(r) => cur[r][i].pos = pos[r]
        /\ AtMessage(r) => pos[r] \in 1..Len(Messages(r))
        /\ Increasing(invokedAt[r]) /\ Increasing(SentAtPositions(r))
        /\ \A i \in InvokedPositions(r) \cup SentPositions(r) :
              i \in 1..Len(Messages(r)) /\ i <= pos[r]
        /\ response[r] # NoResponse => pc[r] = "done"

\* two messages, each read, invoked, stored and sent in turn, then the 200
C17_Witness ==
    \E r \in Reqs :
        /\ pc[r] = "done" /\ response[r] = Ok
        /\ invokedAt[r] = <<1, 2>> /\ SentAtPositions(r) = <<1, 2>>
        /\ Ops(r) = <<"get", "invoke", "set", "send">>

\* a step of request r that writes the store as the App Bridge may: once
\* for the invocation, under the key of the message at hand, the identifier
\* the App returned, every other key left as it was
BridgeWrite(r) ==
    /\ pc[r] = "set" /\ Calls(r, "set") = << >>
    /\ LET res == Calls(r, "invoke")[1].result
           key == KeyAt(r, pos[r])
       IN  /\ IsObj(res) /\ "conversation_id" \in DOMAIN res.v
           /\ Truthy(res.v.conversation_id)
           /\ DOMAIN store' = DOMAIN store \cup {key}
           /\ Utf8Decode(store'[key]) = PyStr(res.v.conversation_id)
           /\ \A k \in DOMAIN store \ {key} : store'[k] = store[k]

\* C18: the store changes only by the single write of an App Bridge
\* invocation whose App call succeeded and returned a non-empty
\* conversation identifier: under the invocation's own key, to that
\* identifier; a failed invocation or a response without identifier leaves
\* the whole store as it was.
C18_StoreFrame ==
    [][ store' # store => \E r \in Reqs : BridgeWrite(r) ]_vars

\* a token stored for the first message survives the failed invocation for
\* the second message of the same conversation
C18_Witness ==
    \E r \in Reqs :
        /\ pc[r] = "done" /\ invokedAt[r] = <<1, 2>>
        /\ KeyAt(r, 1) = KeyAt(r, 2)
        /\ Calls(r, "invoke")[1].pos = 2 /\ Calls(r, "invoke")[1].result = Raised
        /\ Calls(r, "set") = << >>
        /\ StoredToken(store, KeyAt(r, 2)) = "c1"
        /\ StoredToken(store0, KeyAt(r, 2)) = ""

(***************************************************************************)
(* Conversations told apart by their key: requests served one after the    *)
(* other, for phone number ids and senders written with and without a      *)
(* colon, the sender given as a JSON string or as a JSON number.            *)
(***************************************************************************)
MFrom(from) ==
    JObj([from |-> from, type |-> JStr("text"), text |-> JObj([body |-> JStr("hi")])])

KeySettings ==
    { JObj([access_token |-> JStr("tok"), phone_number_id |-> JStr(p), app |-> AppObj]) :
        p \in {"1", "1:2"} }
KeyBodies ==
    { [t |-> "json", v |-> OneChange(<<MFrom(s)>>)] : s \in {JStr("3"), JStr("2:3"), JNum(3)} }

NextKeys ==
    \/ Receive("r1", KeySettings, KeyBodies)
    \/ HandleWebhook("r1")
    \/ WalkNext("r1")
    \/ StorageGetStep("r1", StoreOutcomes)
    \/ AppInvoke("r1", ConcAppOutcomes)
    \/ StorageSetStep("r1", StoreOutcomes)
    \/ SendStep("r1", ConcSendOutcomes)
    \/ Forget("r1")

SpecKeys == Init /\ [][NextKeys]_vars

\* C19 (as claimed): different (phone_number_id, sender) pairs never have
\* the same key, so the token found under the key of the message at hand
\* was stored for the same phone_number_id and the same sender.
C19_KeyInjective ==
    \A r \in Reqs :
        (AtMessage(r) /\ Key(r) \in DOMAIN lastSet) =>
            /\ lastSet[Key(r)].phone_number_id = PhoneNumberId(r)
            /\ lastSet[Key(r)].sender_wa_id = Sender(r)

\* C20 (as claimed): whenever the direct-send tool has posted to the
\* platform, the `to` field of the request is a non-empty string of
\* decimal digits.
C20_NeverEmptyRecipient ==
    \A i \in 1..Len(tool.posts) :
        LET to == tool.posts[i].request.to
        IN  /\ to # ""
            /\ \A k \in 1..Len(to) : IsDigit(CharAt(to, k))

=============================================================================
